---- MODULE Spec2Model ----
(***************************************************************************)
(* Nexxi chat client: the shared axios client with its retrying response   *)
(* interceptor (services/api.ts), the SSE consumer sendMessageStream       *)
(* (services/chatService.ts) and the turn driver useChat.sendChat          *)
(* (hooks/useChat.ts) over the zustand chat store (store/chatStore.ts).    *)
(***************************************************************************)
EXTENDS Integers, Sequences, FiniteSets, TLC

(***************************************************************************)
(* Part I. services/api.ts: one request through the shared axios client.   *)
(***************************************************************************)

\* Program constants of services/api.ts.
MAX_RETRIES == 3
RETRY_DELAY_MS == 800

\* Bound of the environment: how late a timer may fire (ms).
TimerLag == 1

NoStatus == 0
\* error.response?.status as the interceptor sees it; NoStatus stands for
\* "no response" (network error, timeout).
Statuses == {400, 401, 422, 429, 500, 503}

\* The Retry-After header: absent, or its text as a sequence of characters.
NoHeader == [present |-> FALSE, text |-> <<>>]
Header(t) == [present |-> TRUE, text |-> t]
RetryAfterHeaders ==
    {NoHeader, Header(<<"0">>), Header(<<"2">>), Header(<<"1", "0">>),
     Header(<<"W", "e", "d">>)}

DigitValue(c) ==
    CASE c = "0" -> 0 [] c = "1" -> 1 [] c = "2" -> 2 [] c = "3" -> 3
      [] c = "4" -> 4 [] c = "5" -> 5 [] c = "6" -> 6 [] c = "7" -> 7
      [] c = "8" -> 8 [] c = "9" -> 9 [] OTHER -> -1

RECURSIVE ParseDigits(_, _)
ParseDigits(s, acc) ==
    IF s = <<>> \/ DigitValue(Head(s)) < 0 THEN acc
    ELSE ParseDigits(Tail(s), acc * 10 + DigitValue(Head(s)))

\* A JavaScript number as far as the interceptor needs it: NaN or an integer.
NaN == [nan |-> TRUE, val |-> 0]
Num(n) == [nan |-> FALSE, val |-> n]

\* parseInt(text, 10): the leading decimal digits, NaN when there is none.
ParseInt(s) ==
    IF s = <<>> \/ DigitValue(Head(s)) < 0 THEN NaN ELSE Num(ParseDigits(s, 0))

\* parseInt(error.response?.headers['retry-after'] ?? '5', 10)
RetryAfterOf(hdr) == ParseInt(IF hdr.present THEN hdr.text ELSE <<"5">>)

\* sleep(ms): setTimeout treats NaN and negative delays as 0.
SleepMs(ms) == IF ms.nan \/ ms.val < 0 THEN 0 ELSE ms.val

RateLimitWaitNone(retryAfter) == 0
\* await sleep(retryAfter * 1000)
RateLimitWait(retryAfter) ==
    SleepMs(IF retryAfter.nan THEN NaN ELSE Num(retryAfter.val * 1000))

RECURSIVE Pow2(_)
Pow2(n) == IF n <= 0 THEN 1 ELSE 2 * Pow2(n - 1)

\* RETRY_DELAY_MS * Math.pow(2, config._retryCount - 1)
BackoffDelay(count) == RETRY_DELAY_MS * Pow2(count - 1)

ShouldRetryAny(status) == status # 401
ShouldRetryNo429(status) == status = NoStatus \/ status >= 500
\* const shouldRetry = !status || status >= 500 || status === 429
ShouldRetry(status) == status = NoStatus \/ status >= 500 \/ status = 429

RetryAllowedOneMore(count) == count <= MAX_RETRIES
\* config._retryCount < MAX_RETRIES
RetryAllowed(count) == count < MAX_RETRIES

(***************************************************************************)
(* Part II. Text as sequences of characters.                               *)
(***************************************************************************)

SP == " "   \* the space character
NL == "N"   \* the newline character of the event stream

RECURSIVE TrimLeft(_)
TrimLeft(s) == IF s # <<>> /\ Head(s) = SP THEN TrimLeft(Tail(s)) ELSE s

RECURSIVE TrimRight(_)
TrimRight(s) ==
    IF s # <<>> /\ s[Len(s)] = SP THEN TrimRight(SubSeq(s, 1, Len(s) - 1)) ELSE s

\* String.prototype.trim
Trim(s) == TrimRight(TrimLeft(s))

\* String.prototype.split(sep) for a one-character separator: the pieces
\* between the separators, empty pieces included; never an empty list.
RECURSIVE SplitFrom(_, _, _)
SplitFrom(s, sep, cur) ==
    IF s = <<>> THEN <<cur>>
    ELSE IF Head(s) = sep THEN <<cur>> \o SplitFrom(Tail(s), sep, <<>>)
    ELSE SplitFrom(Tail(s), sep, Append(cur, Head(s)))

Split(s, sep) == SplitFrom(s, sep, <<>>)

(***************************************************************************)
(* Part III. services/chatService.ts: the body of sendMessageStream's read *)
(* loop. An event line is "data: " followed by a JSON object; the          *)
(* characters of the model are                                             *)
(*   D   the prefix "data: "        {  }  the braces of the JSON object    *)
(*   a b a character of delta       F     "finished": true                 *)
(*   Q   the text [DONE]            x     anything else                    *)
(***************************************************************************)

DeltaChars == {"a", "b"}

RECURSIVE AllIn(_, _)
AllIn(s, S) == s = <<>> \/ (Head(s) \in S /\ AllIn(Tail(s), S))

\* JSON.parse(raw) as a StreamChunk: well-formed payloads are {delta*} and
\* {delta* F}; everything else makes JSON.parse throw.
ParseChunk(raw) ==
    LET n == Len(raw)
        inner == SubSeq(raw, 2, n - 1)
        fin == inner # <<>> /\ inner[Len(inner)] = "F"
        delta == IF fin THEN SubSeq(inner, 1, Len(inner) - 1) ELSE inner
    IN  IF n >= 2 /\ raw[1] = "{" /\ raw[n] = "}" /\ AllIn(delta, DeltaChars)
        THEN [ok |-> TRUE, finished |-> fin, delta |-> delta]
        ELSE [ok |-> FALSE, finished |-> FALSE, delta |-> <<>>]

\* What one line of the loop "for (const line of lines)" does:
\*   skip      not a data line (continue)
\*   return    the [DONE] marker (return without a callback)
\*   done      onDone, then return
\*   token     onToken(delta)
\*   nothing   a well-formed event with an empty delta
\*   malformed JSON.parse threw and the catch swallowed it
LineEffectMalformedEnds(line) ==
    IF line = <<>> \/ Head(line) # "D" THEN [kind |-> "skip", delta |-> <<>>]
    ELSE LET raw == Trim(Tail(line))
             chunk == ParseChunk(raw)
         IN  IF raw = <<"Q">> \/ ~chunk.ok THEN [kind |-> "return", delta |-> <<>>]
             ELSE IF chunk.finished THEN [kind |-> "done", delta |-> <<>>]
             ELSE IF chunk.delta # <<>> THEN [kind |-> "token", delta |-> chunk.delta]
             ELSE [kind |-> "nothing", delta |-> <<>>]
LineEffect(line) ==
    IF line = <<>> \/ Head(line) # "D" THEN [kind |-> "skip", delta |-> <<>>]
    ELSE LET raw == Trim(Tail(line))
             chunk == ParseChunk(raw)
         IN  IF raw = <<"Q">> THEN [kind |-> "return", delta |-> <<>>]
             ELSE IF ~chunk.ok THEN [kind |-> "malformed", delta |-> <<>>]
             ELSE IF chunk.finished THEN [kind |-> "done", delta |-> <<>>]
             ELSE IF chunk.delta # <<>> THEN [kind |-> "token", delta |-> chunk.delta]
             ELSE [kind |-> "nothing", delta |-> <<>>]

RECURSIVE LineEffectsGoOn(_)
LineEffectsGoOn(lines) ==
    IF lines = <<>> THEN <<>>
    ELSE <<LineEffect(Head(lines))>> \o LineEffectsGoOn(Tail(lines))

\* The callbacks of the lines up to and including the first one that returns.
RECURSIVE LineEffects(_)
LineEffects(lines) ==
    IF lines = <<>> THEN <<>>
    ELSE LET e == LineEffect(Head(lines))
         IN  IF e.kind \in {"return", "done"} THEN <<e>>
             ELSE <<e>> \o LineEffects(Tail(lines))

\* One pass of the while loop for a chunk that was read:
\*   buffer += decode(value); lines = buffer.split('\n'); buffer = lines.pop()
ProcessChunkNoBuffer(buffer, chunk) ==
    LET lines == Split(chunk, NL)
        n == Len(lines)
        effects == LineEffects(SubSeq(lines, 1, n - 1))
    IN  [buffer |-> lines[n], effects |-> effects]
ProcessChunk(buffer, chunk) ==
    LET lines == Split(buffer \o chunk, NL)
        n == Len(lines)
        effects == LineEffects(SubSeq(lines, 1, n - 1))
    IN  [buffer |-> lines[n], effects |-> effects]

(***************************************************************************)
(* Part IV. store/chatStore.ts: the store as a value and its actions as    *)
(* functions from store to store.                                          *)
(***************************************************************************)

NoSession == 0      \* activeSessionId: null
NoError == "null"   \* error: null

InitialStore ==
    [messages |-> <<>>, isLoading |-> FALSE, isStreaming |-> FALSE, error |-> NoError,
     sessions |-> <<>>, activeSessionId |-> NoSession]

HasSession(sessions, id) == \E i \in 1..Len(sessions) : sessions[i].id = id

\* String.prototype.slice(0, n)
SliceTo(s, n) == IF Len(s) <= n THEN s ELSE SubSeq(s, 1, n)

ELLIPSIS == "..."   \* the single character U+2026

\* utils/formatters.ts truncate
Truncate(s, maxLength) ==
    IF Len(s) <= maxLength THEN s
    ELSE TrimRight(SliceTo(s, maxLength)) \o <<ELLIPSIS>>

TITLE_LENGTH == 42
PREVIEW_LENGTH == 60

\* utils/formatters.ts extractSessionTitle
ExtractSessionTitle(firstMessage) == Truncate(firstMessage, TITLE_LENGTH)

NewChatTitle == <<"N", "e", "w", SP, "C", "h", "a", "t">>

\* addMessage: append the message, then create or touch the active session's entry.
\* createdAt and updatedAt are left out: they depend on the clock only.
AddMessage(st, role, content, streaming) ==
    LET message == [role |-> role, content |-> content, isStreaming |-> streaming,
                    error |-> FALSE]
        id == st.activeSessionId
        preview == SliceTo(content, PREVIEW_LENGTH)
        sessions ==
            IF id = NoSession THEN st.sessions
            ELSE IF ~HasSession(st.sessions, id)
            THEN <<[id |-> id,
                    title |-> IF role = "user" THEN ExtractSessionTitle(content)
                              ELSE NewChatTitle,
                    messageCount |-> 1,
                    preview |-> preview]>> \o st.sessions
            ELSE [i \in 1..Len(st.sessions) |->
                    IF st.sessions[i].id = id
                    THEN [st.sessions[i] EXCEPT !.messageCount = @ + 1,
                                                !.preview = preview]
                    ELSE st.sessions[i]]
    IN  [st EXCEPT !.messages = Append(@, message), !.error = NoError,
                   !.sessions = sessions]

LastIsAssistant(st) ==
    st.messages # <<>> /\ st.messages[Len(st.messages)].role = "assistant"

\* updateLastMessage: append the token to the last message if it is an assistant's.
UpdateLastMessage(st, token) ==
    IF LastIsAssistant(st)
    THEN [st EXCEPT !.messages[Len(st.messages)] =
                        [@ EXCEPT !.content = @ \o token, !.isStreaming = TRUE]]
    ELSE st

SetLastMessageDone(st) ==
    LET m == IF LastIsAssistant(st)
             THEN [st.messages EXCEPT ![Len(st.messages)].isStreaming = FALSE]
             ELSE st.messages
    IN  [st EXCEPT !.messages = m, !.isStreaming = FALSE, !.isLoading = FALSE]

SetLastMessageError(st) ==
    LET m == IF LastIsAssistant(st)
             THEN [st.messages EXCEPT ![Len(st.messages)] =
                                         [@ EXCEPT !.error = TRUE, !.isStreaming = FALSE]]
             ELSE st.messages
    IN  [st EXCEPT !.messages = m, !.isStreaming = FALSE, !.isLoading = FALSE]

SetLoading(st, loading) == [st EXCEPT !.isLoading = loading]
SetStreaming(st, streaming) == [st EXCEPT !.isStreaming = streaming]
SetError(st, error) == [st EXCEPT !.error = error]

\* createNewSession with the id uuidv4() returned.
CreateNewSessionKeepsActive(st, id) ==
    [st EXCEPT !.messages = <<>>, !.error = NoError, !.isLoading = FALSE,
               !.isStreaming = FALSE]
CreateNewSession(st, id) ==
    [st EXCEPT !.activeSessionId = id, !.messages = <<>>, !.error = NoError,
               !.isLoading = FALSE, !.isStreaming = FALSE]

\* clearMessages
ClearMessagesDropsSession(st) ==
    [st EXCEPT !.messages = <<>>, !.error = NoError, !.activeSessionId = NoSession]
ClearMessages(st) == [st EXCEPT !.messages = <<>>, !.error = NoError]

\* setActiveSession
SetActiveSession(st, sessionId) ==
    [st EXCEPT !.activeSessionId = sessionId, !.messages = <<>>, !.error = NoError]

\* updateSessionMeta: data is a Partial<Session>, here a record with some of the
\* fields title, messageCount and preview; { ...s, ...data } overrides those fields.
UpdateSessionMeta(st, sessionId, data) ==
    [st EXCEPT !.sessions =
        [i \in 1..Len(st.sessions) |->
            IF st.sessions[i].id = sessionId
            THEN [f \in DOMAIN st.sessions[i] |->
                    IF f \in DOMAIN data THEN data[f] ELSE st.sessions[i][f]]
            ELSE st.sessions[i]]]

\* Array.prototype.filter
RECURSIVE FilterOutId(_, _)
FilterOutId(sessions, sessionId) ==
    IF sessions = <<>> THEN <<>>
    ELSE IF Head(sessions).id = sessionId THEN FilterOutId(Tail(sessions), sessionId)
    ELSE <<Head(sessions)>> \o FilterOutId(Tail(sessions), sessionId)

\* deleteSession
DeleteSessionActivatesLast(st, sessionId) ==
    LET remaining == FilterOutId(st.sessions, sessionId)
        isActive == st.activeSessionId = sessionId
    IN  [st EXCEPT !.sessions = remaining,
                   !.activeSessionId = IF isActive
                                       THEN (IF remaining # <<>>
                                             THEN remaining[Len(remaining)].id
                                             ELSE NoSession)
                                       ELSE @,
                   !.messages = IF isActive THEN <<>> ELSE @]
DeleteSessionAll(st, sessionId) ==
    [st EXCEPT !.sessions = <<>>, !.activeSessionId = NoSession, !.messages = <<>>]
DeleteSession(st, sessionId) ==
    LET remaining == FilterOutId(st.sessions, sessionId)
        isActive == st.activeSessionId = sessionId
    IN  [st EXCEPT !.sessions = remaining,
                   !.activeSessionId = IF isActive
                                       THEN (IF remaining # <<>> THEN remaining[1].id
                                             ELSE NoSession)
                                       ELSE @,
                   !.messages = IF isActive THEN <<>> ELSE @]

\* persist's partialize: what is written to storage under 'nexxi-chat-store'.
Partialize(st) == [sessions |-> st.sessions, activeSessionId |-> st.activeSessionId]

(***************************************************************************)
(* Part V. State.                                                          *)
(***************************************************************************)

\* Bounds of the chat model.
MaxTurns == 2    \* sendChat calls that start a turn
MaxReads == 2    \* chunks a stream delivers

Turns == 1..MaxTurns

VARIABLES
    store,      \* the zustand store
    abortRef,   \* abortRef.current: the turn whose AbortController it holds, 0 for null
    nextTurn,   \* the turn the next sendChat starts
    nextId,     \* the next id uuidv4() returns
    turn        \* per turn: the locals of its sendChat call and what it did so far

chatVars == <<store, abortRef, nextTurn, nextId, turn>>

\* Bounds of the session model.
MaxSessionIds == 3    \* ids uuidv4() hands out
MaxSessionOps == 3    \* session operations recorded
MaxPending == 1       \* useSession calls waiting for clearSession at one time

VARIABLES
    pending,     \* useSession calls suspended at "await clearSession(...)"
    sessionOps   \* history: the session operations applied to the store, each with
                 \* the turn the next sendChat would start and the resulting state

sessVars == <<pending, sessionOps>>

SessInit ==
    /\ pending = <<>>
    /\ sessionOps = <<>>

\* Bounds of the store model.
MaxMessages == 2      \* messages in the list, messages counted by one entry, tokens in one message
MaxStoreIds == 2      \* ids uuidv4() hands out to the store called directly

VARIABLES
    twin,        \* the store of a second run that performs the same calls with other contents
    lastCall     \* history: the store action called last, with the ids listed before it

twinVars == <<twin, lastCall>>

NoCall == [name |-> "none", id |-> NoSession, before |-> {}, active |-> NoSession,
           shown |-> 0]

TwinInit ==
    /\ twin = InitialStore
    /\ lastCall = NoCall

\* Bounds of the input model.
MaxAppends == 1       \* voice transcripts appended to one text
MaxBatch == 4         \* files handed to handleFiles in one call

VARIABLES
    inputText,      \* ChatInput: text
    inputError,     \* ChatInput: error
    appended,       \* transcripts appended to text since it was typed or sent
    sent,           \* history: the latest call of onSend
    uploadedFiles,  \* useFileUpload: uploadedFiles
    handled         \* history: the latest call of handleFiles and its validation

inputVars == <<inputText, inputError, appended, sent, uploadedFiles, handled>>

NotSent == [called |-> FALSE, text |-> <<>>, files |-> <<>>]
NotHandled ==
    [called |-> FALSE, rawFiles |-> <<>>, valid |-> TRUE, error |-> [kind |-> "none", of |-> <<>>]]

InputInit ==
    /\ inputText = <<>>
    /\ inputError = NoError
    /\ appended = 0
    /\ sent = NotSent
    /\ uploadedFiles = <<>>
    /\ handled = NotHandled

\* Bounds of the voice model.
MaxRecordings == 2    \* startRecording calls that create a recognition

Recordings == 1..MaxRecordings

VARIABLES
    voiceState,      \* useVoiceInput: voiceState
    transcript,      \* useVoiceInput: transcript
    recognitionRef,  \* recognitionRef.current: the recording whose recognition it holds, 0 for null
    autoStopRef,     \* autoStopRef.current: the recording whose auto-stop timer it holds, 0 for null
    timers,          \* the recordings whose auto-stop timer is still to fire
    nextRecording,   \* the recording the next startRecording creates
    recording        \* per recording: its recognition, its handlers' closure, what it did so far

voiceVars ==
    <<voiceState, transcript, recognitionRef, autoStopRef, timers, nextRecording, recording>>

NoRecording ==
    [phase |-> "none",     \* none, starting, listening, errored, ended, delivered
     captured |-> <<>>,    \* transcript as the handlers' closure holds it
     heard |-> <<>>,       \* history: the transcript onresult set last during this recording
     calls |-> <<>>]       \* history: the arguments of the onTranscript calls of its onend

VoiceInit ==
    /\ voiceState = "idle"
    /\ transcript = <<>>
    /\ recognitionRef = 0
    /\ autoStopRef = 0
    /\ timers = {}
    /\ nextRecording = 1
    /\ recording = [r \in Recordings |-> NoRecording]

\* The response body of a stream whose reads cut it at any place.
VARIABLES
    body,        \* all: the characters of the body; at: how many of them were read
    delivered    \* history: the arguments of the onToken calls, in order

splitVars == <<body, delivered>>

NoBody == [all |-> <<>>, at |-> 0]

uiVars == <<inputVars, voiceVars, splitVars>>

extVars == <<sessVars, twinVars, uiVars>>

ExtInit ==
    /\ SessInit
    /\ TwinInit
    /\ InputInit
    /\ VoiceInit
    /\ body = NoBody
    /\ delivered = <<>>

(***************************************************************************)
(* Part VI. services/api.ts: the response interceptor as a state machine.  *)
(***************************************************************************)

VARIABLES
    hpc,          \* where the axios call is: idle, inflight, sleepRA, sleepBackoff, resolved, rejected
    retryCount,   \* config._retryCount
    attempts,     \* number of times the request was put on the wire
    lastErr,      \* the error the interceptor is handling / handled last
    waited,       \* ms elapsed since lastErr was received
    lastResend,   \* the latest automatic re-send: the error that caused it and the gap before it
    rejectedWith  \* what the call rejected with: none, AxiosError, Error

httpVars == <<hpc, retryCount, attempts, lastErr, waited, lastResend, rejectedWith>>

NoErr == [kind |-> "none", status |-> NoStatus, hdr |-> NoHeader, count |-> 0]
NoResend == [kind |-> "none", status |-> NoStatus, hdr |-> NoHeader, gap |-> 0]

HttpInit ==
    /\ hpc = "idle"
    /\ retryCount = 0
    /\ attempts = 0
    /\ lastErr = NoErr
    /\ waited = 0
    /\ lastResend = NoResend
    /\ rejectedWith = "none"

Lags == 0..TimerLag

\* api.post / api.get / api.delete: the first attempt goes on the wire.
ApiRequest ==
    /\ hpc = "idle"
    /\ hpc' = "inflight"
    /\ attempts' = 1
    /\ retryCount' = 0
    /\ UNCHANGED <<lastErr, waited, lastResend, rejectedWith>>
    /\ UNCHANGED <<chatVars, extVars>>

\* (response) => response
ResponseSuccess ==
    /\ hpc = "inflight"
    /\ hpc' = "resolved"
    /\ UNCHANGED <<retryCount, attempts, lastErr, waited, lastResend, rejectedWith>>
    /\ UNCHANGED <<chatVars, extVars>>

\* The part of the error handler from "const shouldRetry" on.
RetryOrReject(status) ==
    IF ShouldRetry(status) /\ RetryAllowed(retryCount)
    THEN /\ retryCount' = retryCount + 1
         /\ hpc' = "sleepBackoff"
         /\ rejectedWith' = rejectedWith
    ELSE /\ hpc' = "rejected"
         /\ rejectedWith' = "Error"
         /\ retryCount' = retryCount

\* The error handler up to its first await, for an error that carries config.
OnError(kind, status, hdr) ==
    /\ lastErr' = [kind |-> kind, status |-> status, hdr |-> hdr, count |-> retryCount]
    /\ waited' = 0
    /\ IF status = 401
       THEN /\ hpc' = "rejected"
            /\ rejectedWith' = "AxiosError"
            /\ retryCount' = retryCount
       ELSE IF status = 429
       THEN /\ hpc' = "sleepRA"
            /\ UNCHANGED <<retryCount, rejectedWith>>
       ELSE RetryOrReject(status)

\* The backend answers an attempt with an error status.
ResponseError ==
    /\ hpc = "inflight"
    /\ \E s \in Statuses, h \in RetryAfterHeaders :
        /\ (s # 429 => h = NoHeader)
        /\ OnError("response", s, h)
    /\ UNCHANGED <<attempts, lastResend>>
    /\ UNCHANGED <<chatVars, extVars>>

\* The attempt fails with no response: connection refused or reset.
NetworkError ==
    /\ hpc = "inflight"
    /\ OnError("network", NoStatus, NoHeader)
    /\ UNCHANGED <<attempts, lastResend>>
    /\ UNCHANGED <<chatVars, extVars>>

\* axios.create({ timeout: 120_000 }): the attempt is given up by the client.
AxiosTimeout ==
    /\ hpc = "inflight"
    /\ OnError("timeout", NoStatus, NoHeader)
    /\ UNCHANGED <<attempts, lastResend>>
    /\ UNCHANGED <<chatVars, extVars>>

\* if (!config) return Promise.reject(error): an error raised before the
\* request was built carries no config.
SetupError ==
    /\ hpc = "inflight"
    /\ attempts = 1
    /\ lastErr' = [kind |-> "setup", status |-> NoStatus, hdr |-> NoHeader,
                   count |-> retryCount]
    /\ hpc' = "rejected"
    /\ rejectedWith' = "AxiosError"
    /\ UNCHANGED <<retryCount, attempts, waited, lastResend>>
    /\ UNCHANGED <<chatVars, extVars>>

\* await sleep(retryAfter * 1000) returns; the handler goes on to shouldRetry.
RateLimitSleepDone ==
    /\ hpc = "sleepRA"
    /\ \E g \in Lags : waited' = waited + RateLimitWait(RetryAfterOf(lastErr.hdr)) + g
    /\ RetryOrReject(lastErr.status)
    /\ UNCHANGED <<attempts, lastErr, lastResend>>
    /\ UNCHANGED <<chatVars, extVars>>

\* await sleep(delay) returns; return api(config) puts the request on the wire again.
BackoffSleepDone ==
    /\ hpc = "sleepBackoff"
    /\ \E g \in Lags :
        /\ waited' = waited + SleepMs(Num(BackoffDelay(retryCount))) + g
        /\ lastResend' = [kind |-> lastErr.kind, status |-> lastErr.status,
                          hdr |-> lastErr.hdr, gap |-> waited']
    /\ hpc' = "inflight"
    /\ attempts' = attempts + 1
    /\ UNCHANGED <<retryCount, lastErr, rejectedWith>>
    /\ UNCHANGED <<chatVars, extVars>>

HttpNext ==
    \/ ApiRequest
    \/ ResponseSuccess
    \/ ResponseError
    \/ NetworkError
    \/ AxiosTimeout
    \/ SetupError
    \/ RateLimitSleepDone
    \/ BackoffSleepDone

(***************************************************************************)
(* Part VII. hooks/useChat.ts and services/chatService.ts: a turn.         *)
(***************************************************************************)

\* What the user types, what the backend answers to POST /v1/chat, and the
\* chunks reader.read() may return.
Texts == {<<"h">>, <<SP, "h">>, <<SP>>}
Replies == {<<"A", SP, "B">>}
TokenLine(c) == <<"D", "{", c, "}", NL>>
FinishedLine == <<"D", "{", "F", "}", NL>>
StreamChunks ==
    {TokenLine("a"), FinishedLine, <<"D", "{", "a">>, <<"}", NL>>, <<"D", "x", NL>>,
     <<"D", "{", "}", NL>>, <<"D", "Q", NL>>, FinishedLine \o TokenLine("b")}

IdleTurn ==
    [pc |-> "idle",          \* sendChat: idle, fetch, errjson, read, mainReq, mainReveal, done
     epc |-> "none",         \* the onError callback: none, req, reveal, done
     stream |-> FALSE,       \* the stream argument
     streamed |-> FALSE,     \* let streamed
     aborted |-> FALSE,      \* controller.signal.aborted
     request |-> [session_id |-> NoSession, message |-> <<>>],
     buffer |-> <<>>,        \* let buffer
     reads |-> 0,            \* chunks read so far
     mainLeft |-> <<>>,      \* _revealText of sendChat's body: pieces not yet shown
     errLeft |-> <<>>,       \* _revealText of onError: pieces not yet shown
     \* what the turn did so far
     wire |-> <<>>,          \* the requests it issued, in order
     streamEnd |-> "none",   \* how sendMessageStream ended: error, abort, eof, finished, marker
     malformed |-> FALSE,    \* a malformed data line was consumed
     tokens |-> 0,           \* onToken calls
     dones |-> 0,            \* onDone calls
     errors |-> 0,           \* onError calls
     late |-> FALSE,         \* a callback was made after onDone
     trailing |-> FALSE]     \* lines followed the line sendMessageStream returned at

ChatInit ==
    /\ store = InitialStore
    /\ abortRef = 0
    /\ nextTurn = 1
    /\ nextId = 1
    /\ turn = [t \in Turns |-> IdleTurn]

StreamRequest(request) ==
    [kind |-> "stream", session_id |-> request.session_id, message |-> request.message]

AssembledRequestNoSession(request) ==
    [kind |-> "assembled", session_id |-> NoSession, message |-> request.message]
\* sendMessage({ ...request, stream: false }): POST /v1/chat
AssembledRequest(request) ==
    [kind |-> "assembled", session_id |-> request.session_id, message |-> request.message]

\* The tokens _revealText passes to onToken: words[i] + sep.
Pieces(fullText) ==
    LET words == Split(fullText, SP)
    IN  [i \in 1..Len(words) |-> IF i < Len(words) THEN words[i] \o <<SP>> ELSE words[i]]

\* finally { setLoading(false); setStreaming(false) }
Finally(st) == SetStreaming(SetLoading(st, FALSE), FALSE)

\* The callbacks of one chunk, applied in order to the turn's locals and the store.
RECURSIVE ApplyEffects(_, _, _)
ApplyEffects(tr, st, effects) ==
    IF effects = <<>> THEN [tr |-> tr, st |-> st]
    ELSE LET e == Head(effects)
         IN  CASE e.kind = "token" ->
                    ApplyEffects([tr EXCEPT !.streamed = TRUE,
                                            !.tokens = @ + 1,
                                            !.late = @ \/ tr.dones > 0],
                                 UpdateLastMessage(st, e.delta), Tail(effects))
               [] e.kind = "done" ->
                    ApplyEffects([tr EXCEPT !.dones = @ + 1,
                                            !.late = @ \/ tr.dones > 0,
                                            !.streamEnd = "finished"],
                                 SetLastMessageDone(st), Tail(effects))
               [] e.kind = "return" ->
                    ApplyEffects([tr EXCEPT !.streamEnd = "marker"], st, Tail(effects))
               [] e.kind = "malformed" ->
                    ApplyEffects([tr EXCEPT !.malformed = TRUE], st, Tail(effects))
               [] OTHER -> ApplyEffects(tr, st, Tail(effects))

StreamResolvedAlwaysFallback(tr, st) ==
    [tr |-> [tr EXCEPT !.pc = "mainReq", !.buffer = <<>>, !.reads = 0,
                       !.wire = Append(@, AssembledRequest(tr.request))],
     st |-> st]
\* sendChat after "await sendMessageStream(...)": if (!streamed) sendMessage, else finally.
\* The locals of sendMessageStream (buffer, reader) end with it.
StreamResolved(tr, st) ==
    IF ~tr.streamed
    THEN [tr |-> [tr EXCEPT !.pc = "mainReq", !.buffer = <<>>, !.reads = 0,
                            !.wire = Append(@, AssembledRequest(tr.request))],
          st |-> st]
    ELSE [tr |-> [tr EXCEPT !.pc = "done", !.buffer = <<>>, !.reads = 0],
          st |-> Finally(st)]

\* catch (err) of sendMessageStream for an error that is no AbortError: onError(err)
\* runs up to its "await sendMessage" and is not awaited; sendMessageStream resolves.
StreamFailed(tr, st) ==
    StreamResolved([tr EXCEPT !.epc = "req",
                              !.wire = Append(@, AssembledRequest(tr.request)),
                              !.errors = @ + 1,
                              !.late = @ \/ tr.dones > 0,
                              !.streamEnd = "error"], st)

Commit(t, r) ==
    /\ turn' = [turn EXCEPT ![t] = r.tr]
    /\ store' = r.st

\* sendChat(text, files, stream) up to its first await. isLoading, isStreaming and
\* activeSessionId are the values of the latest render, taken here as the store's
\* current values; sendMessage takes no AbortSignal, only fetch does.
SendChat(text, stream) ==
    LET t == nextTurn
        busy == store.isLoading \/ store.isStreaming
        abortedTurns == IF busy /\ abortRef # 0
                        THEN [turn EXCEPT ![abortRef].aborted = TRUE] ELSE turn
        create == store.activeSessionId = NoSession
        sessionId == IF create THEN nextId ELSE store.activeSessionId
        st0 == IF create THEN CreateNewSession(store, nextId) ELSE store
        trimmed == Trim(text)
        st1 == AddMessage(st0, "user", trimmed, FALSE)
        st2 == AddMessage(st1, "assistant", <<>>, TRUE)
        st3 == SetError(SetLoading(st2, TRUE), NoError)
        request == [session_id |-> sessionId, message |-> trimmed]
    IN  /\ nextTurn <= MaxTurns
        /\ nextId' = IF create THEN nextId + 1 ELSE nextId
        /\ IF trimmed = <<>>
           THEN /\ turn' = abortedTurns
                /\ store' = st0
                /\ UNCHANGED <<abortRef, nextTurn>>
           ELSE /\ abortRef' = t
                /\ nextTurn' = nextTurn + 1
                /\ store' = IF stream THEN SetStreaming(st3, TRUE) ELSE st3
                /\ turn' = [abortedTurns EXCEPT ![t] =
                       [@ EXCEPT !.stream = stream, !.request = request,
                                 !.pc = IF stream THEN "fetch" ELSE "mainReq",
                                 !.wire = <<IF stream THEN StreamRequest(request)
                                            ELSE AssembledRequest(request)>>]]
        /\ UNCHANGED <<httpVars, extVars>>

Waiting(t, pcs) == turn[t].pc \in pcs /\ ~turn[t].aborted

\* fetch resolves with a 2xx response that has a body.
FetchOk(t) ==
    /\ Waiting(t, {"fetch"})
    /\ turn' = [turn EXCEPT ![t].pc = "read"]
    /\ UNCHANGED <<store, abortRef, nextTurn, nextId, httpVars, extVars>>

\* fetch resolves with a non-2xx response: await response.json().catch(...)
FetchNotOk(t) ==
    /\ Waiting(t, {"fetch"})
    /\ turn' = [turn EXCEPT ![t].pc = "errjson"]
    /\ UNCHANGED <<store, abortRef, nextTurn, nextId, httpVars, extVars>>

\* response.json() settled (a rejection is caught): throw new Error(detail ?? HTTP status)
ErrorBodyRead(t) ==
    /\ turn[t].pc = "errjson"
    /\ Commit(t, StreamFailed(turn[t], store))
    /\ UNCHANGED <<abortRef, nextTurn, nextId, httpVars, extVars>>

\* fetch resolves with a 2xx response without body: throw new Error('No response body...')
FetchNoBody(t) ==
    /\ Waiting(t, {"fetch"})
    /\ Commit(t, StreamFailed(turn[t], store))
    /\ UNCHANGED <<abortRef, nextTurn, nextId, httpVars, extVars>>

\* fetch rejects: the connection could not be made.
FetchNetworkError(t) ==
    /\ Waiting(t, {"fetch"})
    /\ Commit(t, StreamFailed(turn[t], store))
    /\ UNCHANGED <<abortRef, nextTurn, nextId, httpVars, extVars>>

\* One pass of the while loop for the chunk reader.read() resolved with.
ReadChunk(t, chunk) ==
    LET p == ProcessChunk(turn[t].buffer, chunk)
        lines == Split(turn[t].buffer \o chunk, NL)
        r == ApplyEffects([turn[t] EXCEPT !.buffer = p.buffer, !.reads = @ + 1,
                                          !.trailing = Len(p.effects) < Len(lines) - 1],
                          store, p.effects)
        returned == p.effects # <<>> /\
                    p.effects[Len(p.effects)].kind \in {"return", "done"}
    IN  Commit(t, IF returned THEN StreamResolved(r.tr, r.st) ELSE r)

\* reader.read() resolves with a chunk: one pass of the while loop.
StreamRead(t, chunk) ==
    /\ Waiting(t, {"read"})
    /\ turn[t].reads < MaxReads
    /\ ReadChunk(t, chunk)
    /\ UNCHANGED <<abortRef, nextTurn, nextId, httpVars, extVars>>

\* reader.read() resolves with done: break, sendMessageStream resolves.
StreamEof(t) ==
    /\ Waiting(t, {"read"})
    /\ Commit(t, StreamResolved([turn[t] EXCEPT !.streamEnd = "eof"], store))
    /\ UNCHANGED <<abortRef, nextTurn, nextId, httpVars, extVars>>

\* reader.read() rejects: the connection was reset.
StreamReadError(t) ==
    /\ Waiting(t, {"read"})
    /\ Commit(t, StreamFailed(turn[t], store))
    /\ UNCHANGED <<abortRef, nextTurn, nextId, httpVars, extVars>>

\* fetch or reader.read() rejects with AbortError: return, sendMessageStream resolves.
StreamAbortError(t) ==
    /\ turn[t].pc \in {"fetch", "read"}
    /\ turn[t].aborted
    /\ Commit(t, StreamResolved([turn[t] EXCEPT !.streamEnd = "abort"], store))
    /\ UNCHANGED <<abortRef, nextTurn, nextId, httpVars, extVars>>

\* _revealText up to its first await: the first piece is shown at once.
RevealFirst(st, fullText) ==
    [st |-> UpdateLastMessage(st, Pieces(fullText)[1]),
     left |-> Tail(Pieces(fullText))]

\* "await sendMessage" of sendChat's body resolves; _revealText starts.
MainResponse(t, reply) ==
    /\ turn[t].pc = "mainReq"
    /\ LET r == RevealFirst(store, reply)
       IN  /\ store' = r.st
           /\ turn' = [turn EXCEPT ![t].pc = "mainReveal", ![t].mainLeft = r.left]
    /\ UNCHANGED <<abortRef, nextTurn, nextId, httpVars, extVars>>

\* catch (err) of sendChat for an error that is no AbortError, then finally.
MainFailed(t) ==
    /\ store' = Finally(SetError(SetLastMessageError(store), "request failed"))
    /\ turn' = [turn EXCEPT ![t].pc = "done"]
    /\ UNCHANGED <<abortRef, nextTurn, nextId, httpVars, extVars>>

\* "await sendMessage" of sendChat's body rejects with the backend's error.
MainRejected(t) ==
    /\ turn[t].pc = "mainReq"
    /\ MainFailed(t)

\* "await sendMessage" of sendChat's body rejects because the axios timeout ran out.
MainTimeout(t) ==
    /\ turn[t].pc = "mainReq"
    /\ MainFailed(t)

\* setTimeout(r, delayMs) of _revealText fires: the next piece, or onDone and finally.
MainRevealStep(t) ==
    /\ turn[t].pc = "mainReveal"
    /\ IF turn[t].mainLeft # <<>>
       THEN /\ store' = UpdateLastMessage(store, Head(turn[t].mainLeft))
            /\ turn' = [turn EXCEPT ![t].mainLeft = Tail(@)]
       ELSE /\ store' = Finally(SetLastMessageDone(store))
            /\ turn' = [turn EXCEPT ![t].pc = "done"]
    /\ UNCHANGED <<abortRef, nextTurn, nextId, httpVars, extVars>>

\* "await sendMessage" of onError resolves: setLastMessageDone, then _revealText starts.
ErrResponse(t, reply) ==
    /\ turn[t].epc = "req"
    /\ LET r == RevealFirst(SetLastMessageDone(store), reply)
       IN  /\ store' = r.st
           /\ turn' = [turn EXCEPT ![t].epc = "reveal", ![t].errLeft = r.left]
    /\ UNCHANGED <<abortRef, nextTurn, nextId, httpVars, extVars>>

\* catch (fallbackErr) of onError.
ErrFailed(t) ==
    /\ store' = SetError(SetLastMessageError(store), "fallback failed")
    /\ turn' = [turn EXCEPT ![t].epc = "done"]
    /\ UNCHANGED <<abortRef, nextTurn, nextId, httpVars, extVars>>

\* "await sendMessage" of onError rejects with the backend's error.
ErrRejected(t) ==
    /\ turn[t].epc = "req"
    /\ ErrFailed(t)

\* "await sendMessage" of onError rejects because the axios timeout ran out.
ErrTimeout(t) ==
    /\ turn[t].epc = "req"
    /\ ErrFailed(t)

\* setTimeout(r, delayMs) of onError's _revealText fires: the next piece, or onDone.
ErrRevealStep(t) ==
    /\ turn[t].epc = "reveal"
    /\ IF turn[t].errLeft # <<>>
       THEN /\ store' = UpdateLastMessage(store, Head(turn[t].errLeft))
            /\ turn' = [turn EXCEPT ![t].errLeft = Tail(@)]
       ELSE /\ store' = SetLastMessageDone(store)
            /\ turn' = [turn EXCEPT ![t].epc = "done"]
    /\ UNCHANGED <<abortRef, nextTurn, nextId, httpVars, extVars>>

\* cancelRequest, reachable through the stop button shown while isLoading || isStreaming.
CancelRequest ==
    /\ store.isLoading \/ store.isStreaming
    /\ turn' = IF abortRef # 0 THEN [turn EXCEPT ![abortRef].aborted = TRUE] ELSE turn
    /\ store' = SetLastMessageError(SetStreaming(SetLoading(store, FALSE), FALSE))
    /\ UNCHANGED <<abortRef, nextTurn, nextId, httpVars, extVars>>

Next ==
    \/ \E text \in Texts, stream \in BOOLEAN : SendChat(text, stream)
    \/ CancelRequest
    \/ \E t \in Turns :
        \/ FetchOk(t)
        \/ FetchNotOk(t)
        \/ ErrorBodyRead(t)
        \/ FetchNoBody(t)
        \/ FetchNetworkError(t)
        \/ \E chunk \in StreamChunks : StreamRead(t, chunk)
        \/ StreamEof(t)
        \/ StreamReadError(t)
        \/ StreamAbortError(t)
        \/ \E reply \in Replies : MainResponse(t, reply)
        \/ MainRejected(t)
        \/ MainTimeout(t)
        \/ MainRevealStep(t)
        \/ \E reply \in Replies : ErrResponse(t, reply)
        \/ ErrRejected(t)
        \/ ErrTimeout(t)
        \/ ErrRevealStep(t)

vars == <<httpVars, chatVars, extVars>>

Init == HttpInit /\ ChatInit /\ ExtInit

Spec == Init /\ [][Next]_vars

HttpSpec == Init /\ [][HttpNext]_vars

\* Timers fire and every attempt ends: with a response, a network error or the
\* client's own 120 s timeout.
FairHttpSpec == HttpSpec /\ WF_vars(HttpNext)

(***************************************************************************)
(* Part VIII. hooks/useSession.ts: the sidebar's and the header's session  *)
(* operations, next to turns that find the backend unreachable.            *)
(***************************************************************************)

SessionIds(st) == {st.sessions[i].id : i \in 1..Len(st.sessions)}

\* History bookkeeping: one more session operation, applied before the turn numbered
\* nextTurn starts, leaving st as the store.
RecordedAfter(op, outcome, st) ==
    /\ Len(sessionOps) < MaxSessionOps
    /\ sessionOps' = Append(sessionOps,
                            [at |-> nextTurn, op |-> op, active |-> st.activeSessionId,
                             outcome |-> outcome])

\* An operation that did not wait for clearSession.
Recorded(op, st) == RecordedAfter(op, "none", st)

\* How the promise of clearSession(sessionId) settles: api.delete resolved, or the
\* interceptor rejected it.
ClearOutcomes == {"resolved", "rejected"}

RemoveAt(s, i) == SubSeq(s, 1, i - 1) \o SubSeq(s, i + 1, Len(s))

\* startNewChat, and App's mount effect when there is no active session.
StartNewChat ==
    /\ nextId <= MaxSessionIds
    /\ store' = CreateNewSession(store, nextId)
    /\ nextId' = nextId + 1
    /\ Recorded("createNewSession", store')
    /\ UNCHANGED <<abortRef, nextTurn, turn, pending, httpVars, twinVars, uiVars>>

\* switchSession, called by the sidebar with the id of a listed session.
SwitchSession(sessionId) ==
    /\ sessionId \in SessionIds(store)
    /\ store' = SetActiveSession(store, sessionId)
    /\ Recorded("setActiveSession", store')
    /\ UNCHANGED <<abortRef, nextTurn, nextId, turn, pending, httpVars, twinVars, uiVars>>

\* removeSession up to "await clearSession(sessionId)".
RemoveSession(sessionId) ==
    /\ sessionId \in SessionIds(store)
    /\ Len(pending) < MaxPending
    /\ pending' = Append(pending, [op |-> "remove", id |-> sessionId])
    /\ UNCHANGED <<chatVars, sessionOps, httpVars, twinVars, uiVars>>

\* removeSession without its try/catch: a rejection ends the call.
RemoveSessionResumesUncaught(i, outcome) ==
    /\ i \in 1..Len(pending)
    /\ pending[i].op = "remove"
    /\ store' = IF outcome = "rejected" THEN store ELSE DeleteSession(store, pending[i].id)
    /\ pending' = RemoveAt(pending, i)
    /\ RecordedAfter("deleteSession", outcome, store')
    /\ UNCHANGED <<abortRef, nextTurn, nextId, turn, httpVars, twinVars, uiVars>>
\* removeSession after the await: clearSession resolved, or it rejected and the
\* catch block swallowed the error; deleteSession follows in both cases.
RemoveSessionResumes(i, outcome) ==
    /\ i \in 1..Len(pending)
    /\ pending[i].op = "remove"
    /\ store' = DeleteSession(store, pending[i].id)
    /\ pending' = RemoveAt(pending, i)
    /\ RecordedAfter("deleteSession", outcome, store')
    /\ UNCHANGED <<abortRef, nextTurn, nextId, turn, httpVars, twinVars, uiVars>>

\* clearCurrentSession up to its await; with no active session there is no await
\* and clearMessages runs at once.
ClearCurrentSession ==
    /\ IF store.activeSessionId # NoSession
       THEN /\ Len(pending) < MaxPending
            /\ pending' = Append(pending, [op |-> "clear", id |-> store.activeSessionId])
            /\ UNCHANGED <<store, sessionOps>>
       ELSE /\ store' = ClearMessages(store)
            /\ Recorded("clearMessages", store')
            /\ UNCHANGED pending
    /\ UNCHANGED <<abortRef, nextTurn, nextId, turn, httpVars, twinVars, uiVars>>

\* clearCurrentSession after the await: clearSession resolved, or it rejected and
\* the catch block ignored the error; clearMessages follows in both cases.
ClearCurrentSessionResumes(i, outcome) ==
    /\ i \in 1..Len(pending)
    /\ pending[i].op = "clear"
    /\ store' = ClearMessages(store)
    /\ pending' = RemoveAt(pending, i)
    /\ RecordedAfter("clearMessages", outcome, store')
    /\ UNCHANGED <<abortRef, nextTurn, nextId, turn, httpVars, twinVars, uiVars>>

SessionNext ==
    \/ \E text \in Texts : SendChat(text, TRUE)
    \/ CancelRequest
    \/ \E t \in Turns :
        \/ FetchNetworkError(t)
        \/ ErrRejected(t)
        \/ MainRejected(t)
    \/ StartNewChat
    \/ \E id \in 1..MaxSessionIds : SwitchSession(id)
    \/ \E id \in 1..MaxSessionIds : RemoveSession(id)
    \/ \E i \in 1..MaxPending, outcome \in ClearOutcomes : RemoveSessionResumes(i, outcome)
    \/ ClearCurrentSession
    \/ \E i \in 1..MaxPending, outcome \in ClearOutcomes :
        ClearCurrentSessionResumes(i, outcome)

SessionSpec == Init /\ [][SessionNext]_vars

(***************************************************************************)
(* Part IX. store/chatStore.ts: the actions that write messages, sessions   *)
(* or activeSessionId, called directly, in two runs that make the same     *)
(* calls and differ in the contents of the messages only.                  *)
(***************************************************************************)

MessageContents == {<<"h">>, <<"j", "j">>}
StreamTokens == {<<"a">>}
MetaData == {[title |-> <<"t">>], [messageCount |-> 0, preview |-> <<>>]}
IssuedIds == 1..(nextId - 1)

\* The same call in the second run: a message or a token of another content.
OtherContent(content) ==
    IF content = <<>> THEN <<>>
    ELSE IF content = <<"h">> THEN <<"j", "j">>
    ELSE IF content = <<"a">> THEN <<"b">>
    ELSE <<"h">>

\* Everything a call of a store action leaves alone.
outsideStore == <<abortRef, nextTurn, turn, httpVars, sessVars, uiVars>>

\* History bookkeeping: the action called, its sessionId, and the ids listed, the
\* active id and the number of messages shown before it.
Called(name, id) ==
    lastCall' = [name |-> name, id |-> id, before |-> SessionIds(store),
                 active |-> store.activeSessionId, shown |-> Len(store.messages)]

\* addMessage as useChat calls it: a user's message with its text, or the
\* assistant's empty placeholder.
StoreAddMessage(role, content) ==
    /\ Len(store.messages) < MaxMessages
    /\ \A i \in 1..Len(store.sessions) :
        store.sessions[i].id = store.activeSessionId =>
            store.sessions[i].messageCount < MaxMessages
    /\ role = "assistant" <=> content = <<>>
    /\ store' = AddMessage(store, role, content, role = "assistant")
    /\ twin' = AddMessage(twin, role, OtherContent(content), role = "assistant")
    /\ Called("addMessage", NoSession)
    /\ UNCHANGED <<nextId, outsideStore>>

StoreUpdateLastMessage(token) ==
    /\ LastIsAssistant(store)
    /\ Len(store.messages[Len(store.messages)].content) < MaxMessages
    /\ store' = UpdateLastMessage(store, token)
    /\ twin' = UpdateLastMessage(twin, OtherContent(token))
    /\ Called("updateLastMessage", NoSession)
    /\ UNCHANGED <<nextId, outsideStore>>

StoreClearMessages ==
    /\ store' = ClearMessages(store)
    /\ twin' = ClearMessages(twin)
    /\ Called("clearMessages", NoSession)
    /\ UNCHANGED <<nextId, outsideStore>>

StoreCreateNewSession ==
    /\ nextId <= MaxStoreIds
    /\ store' = CreateNewSession(store, nextId)
    /\ twin' = CreateNewSession(twin, nextId)
    /\ nextId' = nextId + 1
    /\ Called("createNewSession", nextId)
    /\ UNCHANGED outsideStore

StoreSetActiveSession(sessionId) ==
    /\ sessionId \in SessionIds(store)
    /\ store' = SetActiveSession(store, sessionId)
    /\ twin' = SetActiveSession(twin, sessionId)
    /\ Called("setActiveSession", sessionId)
    /\ UNCHANGED <<nextId, outsideStore>>

StoreUpdateSessionMeta(sessionId, data) ==
    /\ sessionId \in IssuedIds
    /\ store' = UpdateSessionMeta(store, sessionId, data)
    /\ twin' = UpdateSessionMeta(twin, sessionId, data)
    /\ Called("updateSessionMeta", sessionId)
    /\ UNCHANGED <<nextId, outsideStore>>

StoreDeleteSession(sessionId) ==
    /\ sessionId \in IssuedIds
    /\ store' = DeleteSession(store, sessionId)
    /\ twin' = DeleteSession(twin, sessionId)
    /\ Called("deleteSession", sessionId)
    /\ UNCHANGED <<nextId, outsideStore>>

StoreNext ==
    \/ \E role \in {"user", "assistant"}, content \in MessageContents \cup {<<>>} :
        StoreAddMessage(role, content)
    \/ \E token \in StreamTokens : StoreUpdateLastMessage(token)
    \/ StoreClearMessages
    \/ StoreCreateNewSession
    \/ \E id \in 1..MaxStoreIds : StoreSetActiveSession(id)
    \/ \E id \in 1..MaxStoreIds, data \in MetaData : StoreUpdateSessionMeta(id, data)
    \/ \E id \in 1..MaxStoreIds : StoreDeleteSession(id)

StoreSpec == Init /\ [][StoreNext]_vars

\* Bound of the sidebar model.
MaxListed == 3        \* sessions listed in the sidebar

\* The store after a chat was started and a message sent in it for each of ids, the
\* head of ids last: createNewSession, then sendChat's addMessage of the user's text.
RECURSIVE Visited(_)
Visited(ids) ==
    IF ids = <<>> THEN InitialStore
    ELSE AddMessage(CreateNewSession(Visited(Tail(ids)), Head(ids)),
                    "user", <<"h">>, FALSE)

\* The stores deleteSession is called on: after the chats of a list of distinct ids
\* were visited, after the sidebar then switched to one of them, and after a message
\* was sent there.
SidebarStores ==
    LET lists == {ids \in UNION {[1..k -> 1..MaxListed] : k \in 0..MaxListed} :
                    \A i, j \in 1..Len(ids) : i # j => ids[i] # ids[j]}
        visited == {Visited(ids) : ids \in lists}
        switched == UNION {{SetActiveSession(st, id) : id \in SessionIds(st)} :
                           st \in visited}
    IN  visited \cup switched
        \cup {AddMessage(st, "user", <<"j", "j">>, FALSE) : st \in switched}

\* The second run is not followed here: twin stays the initial store.
DeleteInit ==
    /\ HttpInit
    /\ ExtInit
    /\ abortRef = 0
    /\ nextTurn = 1
    /\ nextId = MaxListed + 1
    /\ turn = [t \in Turns |-> IdleTurn]
    /\ store \in SidebarStores

DeleteNext == \E id \in 1..MaxListed : StoreDeleteSession(id)

DeleteSpec == DeleteInit /\ [][DeleteNext]_vars

(***************************************************************************)
(* Part X. utils/validators.ts, hooks/useFileUpload.ts and the ChatInput    *)
(* component: what is typed, dictated, attached and sent.                  *)
(***************************************************************************)

MAX_MESSAGE_LENGTH == 1000
MAX_CHARS == 1000
MAX_FILE_COUNT == 3
MAX_FILE_SIZE_BYTES == 10 * 1024 * 1024

ALLOWED_FILE_TYPES ==
    {"application/pdf", "image/png", "image/jpeg", "image/jpg", "text/plain",
     "application/vnd.openxmlformats-officedocument.wordprocessingml.document"}
ALLOWED_EXTENSIONS ==
    {<<".", "pdf">>, <<".", "png">>, <<".", "jpg">>, <<".", "jpeg">>, <<".", "txt">>,
     <<".", "docx">>}

EmptyMessage == "Message cannot be empty."
TooLongMessage == "Message exceeds 1000 characters."

\* validateMessage
ValidateMessageNoLimit(t) ==
    IF t = <<>> \/ Len(Trim(t)) = 0
    THEN [valid |-> FALSE, error |-> EmptyMessage]
    ELSE [valid |-> TRUE, error |-> NoError]
ValidateMessage(t) ==
    IF t = <<>> \/ Len(Trim(t)) = 0
    THEN [valid |-> FALSE, error |-> EmptyMessage]
    ELSE IF Len(t) > MAX_MESSAGE_LENGTH
    THEN [valid |-> FALSE, error |-> TooLongMessage]
    ELSE [valid |-> TRUE, error |-> NoError]

\* String.prototype.toLowerCase on the name segments used here.
ToLowerCase(segment) == IF segment = "PNG" THEN "png" ELSE segment

\* A file name is held as file.name.split('.'), a non-empty list of segments.
ExtensionOf(file) == <<".", ToLowerCase(file.name[Len(file.name)])>>

\* The error of a ValidationResult for files: which message, and the extension or
\* the file name it quotes.
NoFileError == [kind |-> "none", of |-> <<>>]

\* validateFile
ValidateFileByTypeOnly(file) ==
    IF ExtensionOf(file) \notin ALLOWED_EXTENSIONS /\ file.type \notin ALLOWED_FILE_TYPES
    THEN [valid |-> FALSE, error |-> [kind |-> "type", of |-> ExtensionOf(file)]]
    ELSE [valid |-> TRUE, error |-> NoFileError]
ValidateFile(file) ==
    IF ExtensionOf(file) \notin ALLOWED_EXTENSIONS /\ file.type \notin ALLOWED_FILE_TYPES
    THEN [valid |-> FALSE, error |-> [kind |-> "type", of |-> ExtensionOf(file)]]
    ELSE IF file.size > MAX_FILE_SIZE_BYTES
    THEN [valid |-> FALSE, error |-> [kind |-> "size", of |-> file.name]]
    ELSE [valid |-> TRUE, error |-> NoFileError]

\* for (const file of files) { ... if (!result.valid) return result }
RECURSIVE FirstInvalid(_)
FirstInvalid(files) ==
    IF files = <<>> THEN [valid |-> TRUE, error |-> NoFileError]
    ELSE IF ~ValidateFile(Head(files)).valid THEN ValidateFile(Head(files))
    ELSE FirstInvalid(Tail(files))

\* validateFiles
ValidateFiles(files) ==
    IF Len(files) > MAX_FILE_COUNT
    THEN [valid |-> FALSE, error |-> [kind |-> "count", of |-> <<>>]]
    ELSE FirstInvalid(files)

\* The files a user picks or drops.
ExtOnlyFile == [name |-> <<"a", "PNG">>, type |-> "", size |-> MAX_FILE_SIZE_BYTES]
TypeOnlyFile == [name |-> <<"notes">>, type |-> "text/plain", size |-> 1]
ExeFile == [name |-> <<"c", "exe">>, type |-> "application/x-msdownload", size |-> 1]
BigFile == [name |-> <<"d", "pdf">>, type |-> "application/pdf",
            size |-> MAX_FILE_SIZE_BYTES + 1]
RawFiles == {ExtOnlyFile, TypeOnlyFile, ExeFile, BigFile}

SeqsUpTo(S, n) == UNION {[1..k -> S] : k \in 0..n}

\* Everything outside the ChatInput component and its hooks.
outsideInput == <<chatVars, httpVars, sessVars, twinVars, voiceVars, splitVars>>

\* The updater handleFiles passes to setUploadedFiles.
CombinedNoLimit(prev, newFiles) == prev \o newFiles
Combined(prev, newFiles) ==
    LET combined == prev \o newFiles
    IN  IF Len(combined) > 3 THEN prev ELSE combined

\* useFileUpload.handleFiles
HandleFiles(rawFiles) ==
    LET validation == ValidateFiles(rawFiles)
    IN  /\ handled' = [called |-> TRUE, rawFiles |-> rawFiles,
                       valid |-> validation.valid, error |-> validation.error]
        /\ uploadedFiles' = IF ~validation.valid THEN uploadedFiles
                            ELSE Combined(uploadedFiles, rawFiles)
        /\ UNCHANGED <<inputText, inputError, appended, sent, outsideInput>>

\* useFileUpload.removeFile, called with the id of the i-th file shown.
RemoveFile(i) ==
    /\ i \in 1..Len(uploadedFiles)
    /\ uploadedFiles' = RemoveAt(uploadedFiles, i)
    /\ UNCHANGED <<inputText, inputError, appended, sent, handled, outsideInput>>

\* useFileUpload.clearFiles
ClearFiles ==
    /\ uploadedFiles' = <<>>
    /\ UNCHANGED <<inputText, inputError, appended, sent, handled, outsideInput>>

FileNext ==
    \/ \E rawFiles \in SeqsUpTo(RawFiles, MaxBatch) : HandleFiles(rawFiles)
    \/ \E i \in 1..MAX_FILE_COUNT : RemoveFile(i)
    \/ ClearFiles

FileSpec == Init /\ [][FileNext]_vars

Fill(n) == [i \in 1..n |-> "h"]

\* What the textarea can hold after an edit: maxLength limits it to MAX_CHARS.
TypedTexts ==
    {<<>>, <<SP>>, <<SP, "h", SP>>, Fill(MAX_CHARS), Fill(MAX_CHARS - 2),
     <<SP, SP>> \o Fill(MAX_CHARS - 3)}

\* What onTranscript is called with: a trimmed, non-empty transcript.
Transcripts == {<<"h">>, <<"h", SP, "h">>}

\* The textarea's onChange.
ChangeText(value) ==
    /\ Len(value) <= MAX_CHARS
    /\ inputText' = value
    /\ inputError' = NoError
    /\ appended' = 0
    /\ UNCHANGED <<sent, uploadedFiles, handled, outsideInput>>

\* handleVoiceTranscript
HandleVoiceTranscript(dictated) ==
    /\ appended < MaxAppends
    /\ inputText' = IF inputText # <<>> THEN inputText \o <<SP>> \o dictated
                    ELSE dictated
    /\ appended' = appended + 1
    /\ UNCHANGED <<inputError, sent, uploadedFiles, handled, outsideInput>>

\* handleSend. onSend is the component's prop: the call is recorded, what the
\* parent does with it is the parent's.
HandleSend ==
    LET validation == ValidateMessage(inputText)
    IN  IF ~validation.valid
        THEN /\ inputError' = validation.error
             /\ UNCHANGED <<inputText, appended, sent, uploadedFiles, handled,
                            outsideInput>>
        ELSE /\ inputError' = NoError
             /\ sent' = [called |-> TRUE, text |-> Trim(inputText),
                         files |-> uploadedFiles]
             /\ inputText' = <<>>
             /\ appended' = 0
             /\ uploadedFiles' = <<>>
             /\ UNCHANGED <<handled, outsideInput>>

InputNext ==
    \/ \E value \in TypedTexts : ChangeText(value)
    \/ \E dictated \in Transcripts : HandleVoiceTranscript(dictated)
    \/ HandleSend
    \/ \E file \in {ExtOnlyFile, ExeFile} : HandleFiles(<<file>>)
    \/ \E i \in 1..MAX_FILE_COUNT : RemoveFile(i)

InputSpec == Init /\ [][InputNext]_vars

(***************************************************************************)
(* Part XI. hooks/useVoiceInput.ts: recordings and the events the browser's *)
(* SpeechRecognition raises for them.                                      *)
(***************************************************************************)

\* What recognition reports in one result event: finalText || interim.
Heard == {<<"h">>, <<"j", SP>>}

\* Everything outside the hook.
outsideVoice == <<chatVars, httpVars, sessVars, twinVars, inputVars, splitVars>>

\* startRecording, called by VoiceInput's button, which is disabled while
\* processing and calls stopRecording instead while listening. The handlers it
\* installs close over the transcript of the render that created this callback.
StartRecording ==
    LET r == nextRecording
    IN  /\ r <= MaxRecordings
        /\ voiceState \notin {"listening", "processing"}
        /\ recording' = [recording EXCEPT ![r] =
                            [@ EXCEPT !.phase = "starting", !.captured = transcript]]
        /\ recognitionRef' = r
        /\ autoStopRef' = r
        /\ timers' = timers \cup {r}
        /\ nextRecording' = r + 1
        /\ UNCHANGED <<voiceState, transcript, outsideVoice>>

\* recognition.onstart
OnStart(r) ==
    /\ recording[r].phase = "starting"
    /\ recording' = [recording EXCEPT ![r].phase = "listening"]
    /\ voiceState' = "listening"
    /\ transcript' = <<>>
    /\ UNCHANGED <<recognitionRef, autoStopRef, timers, nextRecording, outsideVoice>>

\* recognition.onresult
OnResult(r, heard) ==
    /\ recording[r].phase = "listening"
    /\ transcript' = heard
    /\ recording' = [recording EXCEPT ![r].heard = heard]
    /\ UNCHANGED <<voiceState, recognitionRef, autoStopRef, timers, nextRecording,
                   outsideVoice>>

\* recognition.onerror
OnRecognitionError(r, error) ==
    /\ recording[r].phase \in {"starting", "listening"}
    /\ voiceState' = IF error \in {"not-allowed", "network"} THEN "error" ELSE "idle"
    /\ recognitionRef' = 0
    /\ recording' = [recording EXCEPT ![r].phase = "errored"]
    /\ UNCHANGED <<transcript, autoStopRef, timers, nextRecording, outsideVoice>>

\* stopRecording: clearTimeout(autoStopRef.current); recognitionRef.current?.stop().
\* The end event that stop() causes is OnEnd.
StopRecording ==
    /\ voiceState = "listening"
    /\ timers' = timers \ {autoStopRef}
    /\ UNCHANGED <<voiceState, transcript, recognitionRef, autoStopRef, nextRecording,
                   recording, outsideVoice>>

\* The auto-stop timer fires: recognition.stop().
AutoStop(r) ==
    /\ r \in timers
    /\ timers' = timers \ {r}
    /\ UNCHANGED <<voiceState, transcript, recognitionRef, autoStopRef, nextRecording,
                   recording, outsideVoice>>

\* recognition.onend up to setTimeout: the recognition ended, after stop(), after
\* an error or on its own.
OnEnd(r) ==
    /\ recording[r].phase \in {"starting", "listening", "errored"}
    /\ voiceState' = "processing"
    /\ recording' = [recording EXCEPT ![r].phase = "ended"]
    /\ timers' = timers \ {autoStopRef}
    /\ recognitionRef' = 0
    /\ UNCHANGED <<transcript, autoStopRef, nextRecording, outsideVoice>>

\* The callback recognition.onend scheduled 300 ms before.
Deliver(r) ==
    LET finalTranscript == recording[r].captured
    IN  /\ recording[r].phase = "ended"
        /\ voiceState' = "idle"
        /\ recording' = [recording EXCEPT ![r] =
                [@ EXCEPT !.phase = "delivered",
                          !.calls = IF Trim(finalTranscript) # <<>>
                                    THEN Append(@, Trim(finalTranscript)) ELSE @]]
        /\ UNCHANGED <<transcript, recognitionRef, autoStopRef, timers, nextRecording,
                       outsideVoice>>

VoiceNext ==
    \/ StartRecording
    \/ StopRecording
    \/ \E r \in Recordings :
        \/ OnStart(r)
        \/ \E heard \in Heard : OnResult(r, heard)
        \/ \E error \in {"not-allowed", "network", "no-speech"} : OnRecognitionError(r, error)
        \/ AutoStop(r)
        \/ OnEnd(r)
        \/ Deliver(r)

VoiceSpec == Init /\ [][VoiceNext]_vars

(***************************************************************************)
(* Part XII. services/chatService.ts: sendMessageStream reading streams    *)
(* that carry malformed lines between well-formed events.                  *)
(***************************************************************************)

MalformedLine == <<"D", "x", NL>>
TruncatedLine == <<"D", "{", "a", NL>>
ParserChunks ==
    {TokenLine("a"), FinishedLine, MalformedLine,
     MalformedLine \o TokenLine("a"),
     TokenLine("b") \o TruncatedLine \o FinishedLine,
     <<"D", "x">>, <<NL>> \o TokenLine("b")}

ParserNext ==
    \/ SendChat(<<"h">>, TRUE)
    \/ \E t \in Turns :
        \/ FetchOk(t)
        \/ \E chunk \in ParserChunks : StreamRead(t, chunk)
        \/ StreamEof(t)
        \/ StreamReadError(t)

ParserSpec == Init /\ [][ParserNext]_vars

(***************************************************************************)
(* Part XIII. services/chatService.ts: sendMessageStream reading one        *)
(* response body that reader.read() hands over in pieces cut at any place. *)
(***************************************************************************)

\* Response bodies: events with a terminal event; a delta of two characters, a
\* malformed line and no terminal event; the [DONE] marker between events; a line
\* that is no data line, blanks around a payload, an empty delta and a last event
\* without its newline; a terminal event first.
Bodies ==
    {TokenLine("a") \o TokenLine("b") \o FinishedLine,
     <<"D", "{", "a", "b", "}", NL>> \o MalformedLine \o TokenLine("b"),
     TokenLine("a") \o <<"D", "Q", NL>> \o TokenLine("b"),
     <<"x", NL, "D", SP, "{", "a", "}", SP, NL, "D", "{", "}", NL, "D", "{", "b", "}">>,
     FinishedLine \o TokenLine("a")}

SplitInit ==
    /\ HttpInit
    /\ ChatInit
    /\ SessInit
    /\ TwinInit
    /\ InputInit
    /\ VoiceInit
    /\ body \in {[all |-> b, at |-> 0] : b \in Bodies}
    /\ delivered = <<>>

\* The onToken arguments among the callbacks of one pass of the loop.
RECURSIVE TokensOf(_)
TokensOf(effects) ==
    IF effects = <<>> THEN <<>>
    ELSE (IF Head(effects).kind = "token" THEN <<Head(effects).delta>> ELSE <<>>)
         \o TokensOf(Tail(effects))

\* reader.read() resolves with the next n characters of the body.
SplitRead(t, n) ==
    /\ Waiting(t, {"read"})
    /\ n \in 1..(Len(body.all) - body.at)
    /\ LET chunk == SubSeq(body.all, body.at + 1, body.at + n)
       IN  /\ ReadChunk(t, chunk)
           /\ delivered' = delivered \o
                  TokensOf(ProcessChunk(turn[t].buffer, chunk).effects)
    /\ body' = [body EXCEPT !.at = @ + n]
    /\ UNCHANGED <<abortRef, nextTurn, nextId, httpVars, sessVars, twinVars,
                   inputVars, voiceVars>>

\* One turn; the body ends when all of it was read.
SplitNext ==
    \/ nextTurn = 1 /\ SendChat(<<"h">>, TRUE)
    \/ FetchOk(1)
    \/ \E n \in 1..Len(body.all) : SplitRead(1, n)
    \/ body.at = Len(body.all) /\ StreamEof(1)

SplitSpec == SplitInit /\ [][SplitNext]_vars

(***************************************************************************)
(* Claims about a turn.                                                    *)
(***************************************************************************)

RECURSIVE CountAssembled(_)
CountAssembled(w) ==
    IF w = <<>> THEN 0
    ELSE (IF Head(w).kind = "assembled" THEN 1 ELSE 0) + CountAssembled(Tail(w))

\* The assembled requests (sendMessage calls) turn t issued.
NumAssembled(t) == CountAssembled(turn[t].wire)

\* sendMessageStream of turn t has resolved.
StreamOver(t) == turn[t].stream /\ turn[t].pc \in {"mainReq", "mainReveal", "done"}

\* Neither sendChat's body nor its onError callback has anything left to do.
Settled(t) == turn[t].pc \in {"idle", "done"} /\ turn[t].epc \in {"none", "done"}

Contents(st) == [i \in 1..Len(st.messages) |-> st.messages[i].content]

\* C1: a turn whose stream failed before any token issued exactly one assembled
\* request.
C1_ExactlyOneAssembled ==
    \A t \in Turns :
        (turn[t].stream /\ turn[t].streamEnd = "error" /\ turn[t].tokens = 0) =>
            NumAssembled(t) = 1

\* C2 as stated: once the stream attempt is over, a turn whose stream had a
\* connection error, a non-success status or a malformed event frame has issued an
\* assembled request with the session_id and message of the turn.
C2_FallbackOnAnyFailure ==
    \A t \in Turns :
        (StreamOver(t) /\ (turn[t].streamEnd = "error" \/ turn[t].malformed)) =>
            \E i \in 1..Len(turn[t].wire) :
                turn[t].wire[i] = AssembledRequest(turn[t].request)

\* C2 as amended: a turn whose stream ended with a connection error, a non-success
\* status or a missing body (onError was called) has issued, after its stream
\* request, an assembled request, and every request of the turn carries the
\* session_id and the message of the stream request. A malformed frame is skipped.
C2_FallbackOnTransportError ==
    \A t \in Turns :
        turn[t].streamEnd = "error" =>
            /\ turn[t].wire[1].kind = "stream"
            /\ turn[t].wire[1].session_id # NoSession
            /\ \E i \in 2..Len(turn[t].wire) : turn[t].wire[i].kind = "assembled"
            /\ \A i \in 2..Len(turn[t].wire) :
                /\ turn[t].wire[i].session_id = turn[t].wire[1].session_id
                /\ turn[t].wire[i].message = turn[t].wire[1].message

C2_Witness ==
    \E t \in Turns :
        /\ turn[t].streamEnd = "error"
        /\ turn[t].tokens > 0
        /\ turn[t].epc = "done"
        /\ NumAssembled(t) = 1

\* C3: a step of a turn whose controller was aborted issues no request and
\* changes the text of no message.
C3_CancelledTurnIsSilent ==
    [][\A t \in Turns :
          (turn[t].aborted /\ turn'[t] # turn[t]) =>
              /\ turn'[t].wire = turn[t].wire
              /\ Contents(store') = Contents(store)]_vars

\* C4 as stated: a turn whose stream delivered its terminal event issued no
\* assembled request.
C4_NoAssembledAfterTerminal ==
    \A t \in Turns : turn[t].streamEnd = "finished" => NumAssembled(t) = 0

\* C4 as amended: a streaming turn sends its stream request first; it issues an
\* assembled request only if the stream failed or delivered no token; after a
\* terminal event that followed at least one token it issues none, and after a
\* terminal event that followed no token it issues exactly one.
C4_AssembledOnlyAfterFailureOrNothing ==
    \A t \in Turns :
        /\ (turn[t].stream /\ turn[t].wire # <<>>) => turn[t].wire[1].kind = "stream"
        /\ (turn[t].stream /\ NumAssembled(t) > 0) =>
              (turn[t].streamEnd = "error" \/ turn[t].tokens = 0)
        /\ (turn[t].streamEnd = "finished" /\ turn[t].tokens > 0) => NumAssembled(t) = 0
        /\ (turn[t].streamEnd = "finished" /\ turn[t].tokens = 0) => NumAssembled(t) = 1

C4_Witness ==
    \E t \in Turns :
        /\ turn[t].streamEnd = "finished"
        /\ turn[t].tokens > 0
        /\ turn[t].pc = "done"

\* C5: onDone is called at most once, exactly for the streams whose terminal event
\* was consumed, and no onToken, onDone or onError follows it.
C5_DoneOnceAndLast ==
    \A t \in Turns :
        /\ turn[t].dones <= 1
        /\ ~turn[t].late
        /\ turn[t].dones = 1 <=> turn[t].streamEnd = "finished"
        /\ turn[t].dones = 1 => turn[t].errors = 0

C5_Witness ==
    \E t \in Turns :
        /\ turn[t].dones = 1
        /\ turn[t].trailing
        /\ turn[t].tokens = 1

\* The steps of turn t that need neither the backend nor the user: timers,
\* timeouts and the delivery of an abort.
ClientStep(t) ==
    \/ MainTimeout(t)
    \/ ErrTimeout(t)
    \/ MainRevealStep(t)
    \/ ErrRevealStep(t)
    \/ StreamAbortError(t)

\* C10: a turn that has not settled can always take a step on its own: every wait
\* on the backend can be ended by a timeout of the client.
C10_EveryWaitIsBounded ==
    \A t \in Turns : ~Settled(t) => ENABLED ClientStep(t)

(***************************************************************************)
(* Claims about the HTTP layer.                                            *)
(***************************************************************************)

HttpSettled == hpc \in {"resolved", "rejected"}
ClientErrorStatuses == {400, 401, 422}
\* A 5xx status, or no response at all (network error, timeout).
RetryableErr(e) == e.kind \in {"network", "timeout"} \/ (e.kind = "response" /\ e.status >= 500)

\* C6 as stated: a 429 is surfaced at once (the call is rejected by it) and the
\* request is never re-sent because of a 429.
C6_QuotaSurfacedNoRetry ==
    /\ lastResend.status # 429
    /\ (lastErr.status = 429 => hpc = "rejected")

\* C6 as amended: a 429 is waited out and the request re-sent while the retry
\* counter is below MAX_RETRIES; the call is rejected by a 429 only when that
\* 429 answers the last allowed attempt, and then with a plain Error.
C6_QuotaRetriedUntilExhausted ==
    /\ (lastErr.status = 429 /\ hpc = "rejected") =>
          /\ lastErr.count = MAX_RETRIES
          /\ attempts = MAX_RETRIES + 1
          /\ rejectedWith = "Error"
    /\ (lastErr.status = 429 /\ hpc \in {"inflight", "resolved"}) =>
          /\ lastResend.status = 429
          /\ attempts = lastErr.count + 2
    /\ (lastErr.status = 429 /\ lastErr.count = MAX_RETRIES) =>
          hpc \in {"sleepRA", "rejected"}

C6_Witness ==
    /\ hpc = "rejected"
    /\ lastErr.status = 429
    /\ lastResend.status = 429

\* C7: a 400, 401 or 422 ends the call: it is rejected by that response, whatever
\* the retry counter is, and no attempt follows it.
C7_ClientErrorsNotRetried ==
    /\ lastResend.status \notin ClientErrorStatuses
    /\ lastErr.status \in ClientErrorStatuses =>
          /\ hpc = "rejected"
          /\ rejectedWith \in {"AxiosError", "Error"}
          /\ attempts = lastErr.count + 1

C7_Witness ==
    /\ lastErr.status = 422
    /\ lastErr.count = 2
    /\ hpc = "rejected"

\* C8: a 5xx or no-response failure is re-sent while fewer than MAX_RETRIES
\* re-sends were made; there are never more than MAX_RETRIES + 1 attempts; when
\* the last allowed attempt fails too the call rejects with an Error; and every
\* call settles.
C8_RetryInv ==
    /\ attempts <= MAX_RETRIES + 1
    /\ retryCount <= MAX_RETRIES
    /\ (RetryableErr(lastErr) /\ lastErr.count < MAX_RETRIES) =>
          /\ hpc # "rejected"
          /\ hpc # "sleepBackoff" =>
                 (attempts = lastErr.count + 2 /\ lastResend.kind = lastErr.kind)
    /\ (RetryableErr(lastErr) /\ lastErr.count = MAX_RETRIES) =>
          /\ hpc = "rejected"
          /\ rejectedWith = "Error"
          /\ attempts = MAX_RETRIES + 1

C8_BoundedRetries == []C8_RetryInv /\ <>HttpSettled

C8_Witness ==
    /\ hpc = "rejected"
    /\ attempts = MAX_RETRIES + 1
    /\ lastErr.status = 503
    /\ lastResend.kind = "timeout"

\* C9: a re-send caused by a 429 whose Retry-After is n seconds (5 when the
\* header is absent) happens at least n seconds after the 429 was received.
C9_RetryAfterHonoured ==
    (lastResend.status = 429 /\ ~RetryAfterOf(lastResend.hdr).nan) =>
        lastResend.gap >= RetryAfterOf(lastResend.hdr).val * 1000

C9_Witness ==
    /\ lastResend.status = 429
    /\ lastResend.hdr = Header(<<"1", "0">>)
    /\ lastResend.gap >= 10000

(***************************************************************************)
(* Claims about sessions.                                                  *)
(***************************************************************************)

LastOp == sessionOps[Len(sessionOps)]

\* The step in which sendChat starts turn t.
TurnStarts(t) == turn[t].pc = "idle" /\ turn'[t].pc # "idle"

\* The step in which clearCurrentSession calls clearMessages.
ClearsMessages ==
    \/ \E i \in 1..MaxPending, outcome \in ClearOutcomes :
        ClearCurrentSessionResumes(i, outcome)
    \/ store.activeSessionId = NoSession /\ ClearCurrentSession

\* C11: when clearCurrentSession calls clearMessages the messages become empty while
\* the sessions list and activeSessionId stay as they were, and a sendChat that
\* follows it with no session operation in between sends the session_id that was
\* active when the chat was cleared.
C11_ClearKeepsSlot ==
    [][/\ ClearsMessages =>
            /\ store'.messages = <<>>
            /\ store'.sessions = store.sessions
            /\ store'.activeSessionId = store.activeSessionId
       /\ \A t \in Turns :
            (/\ TurnStarts(t)
             /\ sessionOps # <<>>
             /\ LastOp.op = "clearMessages"
             /\ LastOp.active # NoSession)
            => turn'[t].request.session_id = LastOp.active]_vars

\* A chat with a turn in it was cleared and the next turn has started.
C11_Witness ==
    /\ sessionOps # <<>>
    /\ LastOp.op = "clearMessages"
    /\ LastOp.active # NoSession
    /\ LastOp.at = 2
    /\ turn[2].pc # "idle"
    /\ turn[1].request.session_id = LastOp.active
    /\ Len(store.messages) = 2

OpsBefore(t) == SelectSeq(sessionOps, LAMBDA o : o.at = t)

Started(t) == turn[t].pc # "idle"

\* The requests of the turns that have started carry the session_id of their turn, and
\* consecutive turns carry the same session_id when no session operation lies between
\* them and different ones when createNewSession came last before the later turn.
SessionIdsOfTurns ==
    \A t \in Turns : Started(t) =>
        /\ \A k \in 1..Len(turn[t].wire) :
            turn[t].wire[k].session_id = turn[t].request.session_id
        /\ (t > 1 /\ OpsBefore(t) = <<>>) =>
            turn[t].request.session_id = turn[t - 1].request.session_id
        /\ (/\ t > 1
            /\ OpsBefore(t) # <<>>
            /\ OpsBefore(t)[Len(OpsBefore(t))].op = "createNewSession") =>
            turn[t].request.session_id # turn[t - 1].request.session_id

\* C14: a turn's session_id is the store's activeSessionId at the moment sendChat
\* starts the turn (the id sendChat has just created when there was none), every
\* request of the turn carries it, consecutive turns with no createNewSession,
\* setActiveSession or deleteSession between them carry the same session_id, and
\* the first turn after createNewSession carries a different one.
C14_TurnsCarryActiveSession ==
    [][/\ \A t \in Turns : TurnStarts(t) =>
            /\ turn'[t].request.session_id = store'.activeSessionId
            /\ turn'[t].request.session_id # NoSession
            /\ store.activeSessionId # NoSession =>
                turn'[t].request.session_id = store.activeSessionId
       /\ SessionIdsOfTurns']_vars

\* Two turns in one session, each with its stream request and both fallback requests
\* on the wire, after a first session was abandoned by createNewSession.
C14_Witness ==
    /\ Started(2)
    /\ OpsBefore(2) = <<>>
    /\ OpsBefore(1) # <<>>
    /\ Len(turn[1].wire) = 3
    /\ Len(turn[2].wire) = 3
    /\ turn[2].request.session_id = turn[1].request.session_id
    /\ turn[2].request.session_id = 2

\* C15: two runs that call the same store actions with the same arguments, except
\* for the contents of the messages added and of the tokens appended, have the same
\* persisted state (what partialize keeps of the store).
C15_PersistedStateWithoutContent == Partialize(store) = Partialize(twin)

(***************************************************************************)
(* Claims about the input box.                                             *)
(***************************************************************************)

\* C13: handleSend accepts the text exactly when its trimmed form is non-empty and
\* the text has at most 1000 characters; when it accepts, onSend is called with the
\* trimmed text, which has between 1 and 1000 characters; when it rejects, onSend
\* is not called.
C13_SubmittedWithinLimits ==
    [][HandleSend =>
        LET accepted == inputError' = NoError
        IN  /\ accepted <=> (Trim(inputText) # <<>> /\ Len(inputText) <= 1000)
            /\ accepted <=> ValidateMessage(inputText).valid
            /\ accepted =>
                /\ sent'.called
                /\ sent'.text = Trim(inputText)
                /\ Len(sent'.text) >= 1
                /\ Len(sent'.text) <= 1000
            /\ ~accepted => sent' = sent]_vars

\* A message of exactly 1000 characters was sent, and a text of 1001 characters
\* whose trimmed form has 999 was rejected.
C13_Witness ==
    /\ sent.called
    /\ Len(sent.text) = 1000
    /\ inputError = TooLongMessage
    /\ Len(inputText) = 1001
    /\ Len(Trim(inputText)) = 999

(***************************************************************************)
(* Claims about voice input.                                               *)
(***************************************************************************)

\* C16: once the callback scheduled by a recording's end has run, a recording during
\* which recognition produced a transcript that is non-empty after trimming has
\* called onTranscript exactly once, with that transcript trimmed; and no recording
\* calls onTranscript with anything but its own transcript.
C16_OwnTranscriptDelivered ==
    \A r \in Recordings :
        /\ (recording[r].phase = "delivered" /\ Trim(recording[r].heard) # <<>>) =>
            recording[r].calls = <<Trim(recording[r].heard)>>
        /\ \A k \in 1..Len(recording[r].calls) :
            recording[r].calls[k] = Trim(recording[r].heard)

(***************************************************************************)
(* Claims about attached files.                                            *)
(***************************************************************************)

\* C17: uploadedFiles never holds more than 3 files, and a handleFiles call whose
\* batch fails validateFiles, or whose batch would bring the total above 3, leaves
\* uploadedFiles as it was.
C17_AtMostThreeFiles ==
    [][/\ Len(uploadedFiles') <= 3
       /\ (/\ HandleFiles(handled'.rawFiles)
           /\ \/ ~ValidateFiles(handled'.rawFiles).valid
              \/ Len(uploadedFiles) + Len(handled'.rawFiles) > 3)
          => uploadedFiles' = uploadedFiles]_vars

\* Three files are attached and a valid batch of one more was turned away.
C17_Witness ==
    /\ Len(uploadedFiles) = 3
    /\ \A i \in 1..3 : uploadedFiles[i] = ExtOnlyFile
    /\ handled.called
    /\ handled.valid
    /\ handled.rawFiles = <<TypeOnlyFile>>

ExtensionAllowed(file) == ExtensionOf(file) \in ALLOWED_EXTENSIONS
TypeAllowed(file) == file.type \in ALLOWED_FILE_TYPES
SizeAllowed(file) == file.size <= 10 * 1024 * 1024

\* The position of the first file of the batch that is not Ok, 0 if there is none.
FirstNot(Ok(_), files) ==
    IF \E k \in 1..Len(files) : ~Ok(files[k])
    THEN CHOOSE k \in 1..Len(files) :
            ~Ok(files[k]) /\ \A j \in 1..(k - 1) : Ok(files[j])
    ELSE 0

\* What validateFile returns for a file that is not accepted.
ErrorOf(file, KindOk(_)) ==
    IF ~KindOk(file) THEN [kind |-> "type", of |-> ExtensionOf(file)]
    ELSE [kind |-> "size", of |-> file.name]

\* C18: validateFiles accepts a batch only if it has at most 3 files and every file
\* has an allowed extension and a size of at most 10 MB, and the first file that
\* has not determines the returned error.
C18_AllowedExtensionsOnly ==
    LET Ok(file) == ExtensionAllowed(file) /\ SizeAllowed(file)
        files == handled.rawFiles
        k == FirstNot(Ok, files)
    IN  handled.called =>
            /\ handled.valid => (Len(files) <= 3 /\ k = 0)
            /\ (k # 0 /\ Len(files) <= 3) =>
                handled.error = ErrorOf(files[k], ExtensionAllowed)

\* C18, amended: validateFiles accepts a batch only if it has at most 3 files and
\* every file has an allowed extension or an allowed MIME type, and a size of at most
\* 10 MB; a batch of more than 3 files is rejected for its count, and in a batch of
\* at most 3 the first file that fails these conditions determines the returned error.
C18_AllowedExtensionOrType ==
    LET KindOk(file) == ExtensionAllowed(file) \/ TypeAllowed(file)
        Ok(file) == KindOk(file) /\ SizeAllowed(file)
        files == handled.rawFiles
        k == FirstNot(Ok, files)
    IN  handled.called =>
            /\ handled.valid => (Len(files) <= 3 /\ k = 0)
            /\ Len(files) > 3 => (~handled.valid /\ handled.error.kind = "count")
            /\ (k # 0 /\ Len(files) <= 3) =>
                (~handled.valid /\ handled.error = ErrorOf(files[k], KindOk))

\* A file without an allowed extension passed, and the too large file after it, not
\* the unsupported one that follows, determined the error.
C18_Witness ==
    /\ handled.called
    /\ handled.rawFiles = <<TypeOnlyFile, BigFile, ExeFile>>
    /\ ~handled.valid
    /\ handled.error = [kind |-> "size", of |-> BigFile.name]

(***************************************************************************)
(* Claims about a turn's fallback and about malformed events.              *)
(***************************************************************************)

\* C19: when the only turn's stream failed after tokens were appended to the
\* assistant's message, and the fallback of onError got its response and revealed
\* it to the end, the content of the assistant's message is the message of that
\* response.
C19_PartialTextDiscarded ==
    (/\ nextTurn = 2
     /\ turn[1].streamEnd = "error"
     /\ turn[1].tokens > 0
     /\ turn[1].pc = "done"
     /\ turn[1].epc = "done"
     /\ ~turn[1].aborted
     /\ Len(store.messages) = 2
     /\ ~store.messages[2].error)
    => store.messages[2].content \in Replies

\* The callbacks the claim expects of the complete lines of one read, in order: a
\* line that is no data line and a data line whose payload does not parse give
\* none, the [DONE] marker ends the reading, the terminal event gives onDone and
\* ends it, an event with a non-empty delta gives onToken.
RECURSIVE ExpectedCalls(_)
ExpectedCalls(lines) ==
    IF lines = <<>> THEN <<>>
    ELSE LET line == Head(lines)
             raw == Trim(Tail(line))
             event == ParseChunk(raw)
         IN  IF line = <<>> \/ Head(line) # "D" THEN ExpectedCalls(Tail(lines))
             ELSE IF raw = <<"Q">> THEN <<>>
             ELSE IF ~event.ok THEN ExpectedCalls(Tail(lines))
             ELSE IF event.finished THEN <<[kind |-> "done", delta |-> <<>>]>>
             ELSE IF event.delta # <<>>
             THEN <<[kind |-> "token", delta |-> event.delta]>>
                  \o ExpectedCalls(Tail(lines))
             ELSE ExpectedCalls(Tail(lines))

RECURSIVE DeltasOf(_)
DeltasOf(calls) ==
    IF calls = <<>> THEN <<>>
    ELSE (IF Head(calls).kind = "token" THEN Head(calls).delta ELSE <<>>)
         \o DeltasOf(Tail(calls))

NumberOf(kind, calls) == Cardinality({k \in 1..Len(calls) : calls[k].kind = kind})

HasMalformed(lines) ==
    \E k \in 1..Len(lines) :
        /\ lines[k] # <<>>
        /\ Head(lines[k]) = "D"
        /\ Trim(Tail(lines[k])) # <<"Q">>
        /\ ~ParseChunk(Trim(Tail(lines[k]))).ok

LastContent(st) == st.messages[Len(st.messages)].content

\* C20: a read of sendMessageStream never calls onError, whether its lines hold
\* malformed data lines or follow earlier malformed ones: it calls onToken for the
\* well-formed events of its complete lines, in their order, and onDone for the
\* terminal event, exactly as if the malformed lines were not there, and it goes on
\* reading unless one of its lines ended the stream.
C20_MalformedLinesSkipped ==
    [][\A t \in Turns : \A chunk \in ParserChunks :
        StreamRead(t, chunk) =>
            LET all == Split(turn[t].buffer \o chunk, NL)
                lines == SubSeq(all, 1, Len(all) - 1)
                calls == ExpectedCalls(lines)
            IN  /\ turn'[t].errors = turn[t].errors
                /\ turn'[t].tokens = turn[t].tokens + NumberOf("token", calls)
                /\ turn'[t].dones = turn[t].dones + NumberOf("done", calls)
                /\ ~turn'[t].late
                /\ LastContent(store') = LastContent(store) \o DeltasOf(calls)
                /\ (HasMalformed(lines) /\ turn'[t].streamEnd = "none") =>
                    turn'[t].pc = "read"]_vars

\* A malformed line came first, and the token and the terminal event after it were
\* delivered without an onError call.
C20_Witness ==
    /\ turn[1].malformed
    /\ turn[1].errors = 0
    /\ turn[1].tokens = 1
    /\ turn[1].dones = 1
    /\ turn[1].streamEnd = "finished"
    /\ nextTurn = 2
    /\ LastContent(store) = <<"a">>

(***************************************************************************)
(* Claims about cancellation.                                              *)
(***************************************************************************)

\* C21: a streaming turn whose signal was aborted before sendMessageStream ended
\* gets no onError and no onDone call from the step that delivers the abort or from
\* any later step, and no step of it sets an error text in the store.
C21_CancellationIsNotAnError ==
    [][\A t \in Turns :
          (/\ turn[t].stream
           /\ turn[t].aborted
           /\ turn[t].streamEnd \in {"none", "abort"}
           /\ turn'[t] # turn[t]) =>
              /\ turn'[t].errors = turn[t].errors
              /\ turn'[t].dones = turn[t].dones
              /\ store'.error \in {store.error, NoError}]_vars

(***************************************************************************)
(* Claims about the backend's clear call.                                  *)
(***************************************************************************)

\* C22: when removeSession resumes after clearSession, resolved or rejected, the
\* session it was called with is no longer listed in sessions, and when
\* clearCurrentSession resumes after clearSession, resolved or rejected, messages is
\* empty.
C22_LocalEffectDespiteRejection ==
    [][\A i \in 1..MaxPending, outcome \in ClearOutcomes :
        /\ RemoveSessionResumes(i, outcome) => pending[i].id \notin SessionIds(store')
        /\ ClearCurrentSessionResumes(i, outcome) => store'.messages = <<>>]_vars

\* A chat with a turn in it was cleared and then deleted, and the backend rejected
\* both clear calls.
C22_Witness ==
    /\ Len(sessionOps) = 2
    /\ sessionOps[1].op = "clearMessages"
    /\ sessionOps[1].outcome = "rejected"
    /\ sessionOps[2].op = "deleteSession"
    /\ sessionOps[2].outcome = "rejected"
    /\ nextTurn = 2
    /\ nextId = 2
    /\ store.messages = <<>>
    /\ store.sessions = <<>>
    /\ pending = <<>>

(***************************************************************************)
(* Claims about deleteSession.                                             *)
(***************************************************************************)

\* C23: after deleteSession(id) no entry of sessions has that id, the entries of
\* the other sessions are all there, unchanged and in the order they had; if id was
\* the active session, activeSessionId is the id of the first remaining entry (null
\* when none remains) and messages is empty; otherwise activeSessionId and messages
\* are unchanged.
C23_DeleteSessionFrame ==
    [][\A id \in 1..MaxListed :
        StoreDeleteSession(id) =>
            LET old == store.sessions
                new == store'.sessions
                kept == {k \in 1..Len(old) : old[k].id # id}
                Pos(k) == Cardinality({j \in kept : j <= k})
            IN  /\ \A k \in 1..Len(new) : new[k].id # id
                /\ Len(new) = Cardinality(kept)
                /\ \A k \in kept : new[Pos(k)] = old[k]
                /\ IF store.activeSessionId = id
                   THEN /\ store'.activeSessionId =
                              (IF new = <<>> THEN NoSession ELSE new[1].id)
                        /\ store'.messages = <<>>
                   ELSE /\ store'.activeSessionId = store.activeSessionId
                        /\ store'.messages = store.messages]_vars

\* The active session, one of three listed and showing messages, was deleted: the
\* two others are listed and the first of them is active.
C23_Witness ==
    /\ lastCall.name = "deleteSession"
    /\ lastCall.active = lastCall.id
    /\ lastCall.shown > 0
    /\ Cardinality(lastCall.before) = 3
    /\ Len(store.sessions) = 2
    /\ store.sessions[1].id > lastCall.id
    /\ store.sessions[2].id < lastCall.id
    /\ store.activeSessionId = store.sessions[1].id
    /\ store.messages = <<>>

(***************************************************************************)
(* Claims about the reads of a stream.                                     *)
(***************************************************************************)

\* C24: however the reads cut the response body, the onToken arguments delivered
\* so far are the non-empty deltas of the well-formed events among the
\* newline-terminated lines of the part that was read, up to the terminal event or
\* the [DONE] marker, in order: they depend on what was read, not on where the reads
\* cut it.
C24_TokensIndependentOfReads ==
    LET pieces == Split(SubSeq(body.all, 1, body.at), NL)
        lines == SubSeq(pieces, 1, Len(pieces) - 1)
    IN  delivered = TokensOf(ExpectedCalls(lines))

\* A body with a delta of two characters, a malformed line and a second event was
\* read to its end one character at a time.
C24_Witness ==
    /\ body.all = <<"D", "{", "a", "b", "}", NL>> \o MalformedLine \o TokenLine("b")
    /\ body.at = Len(body.all)
    /\ turn[1].reads = Len(body.all)
    /\ turn[1].pc = "read"
    /\ turn[1].buffer = <<>>
    /\ delivered = <<<<"a", "b">>, <<"b">>>>

====
